---- MODULE Spec2Model ----
(***************************************************************************)
(* Tumblr -> Bluesky crossposter (tumsky_cross.py).                        *)
(*                                                                         *)
(* Byte strings are modelled by their length, urls by a name and a file    *)
(* extension, HTML fragments by the sequence of their src-bearing tags.    *)
(* The collaborators (HTTP fetch, ffmpeg, ImageMagick, upload_blob,        *)
(* feed.post.create) answer nondeterministically.                          *)
(***************************************************************************)
EXTENDS Integers, Sequences, FiniteSets, TLC

VARIABLES
    rawPosts,     \* resp["response"]["posts"] as the Tumblr API returns it
    file,         \* tumblr_state.json: the saved "posted_ids" list
    feed,         \* the author's feed on Bluesky, oldest first
    pc,           \* position of main()
    run,          \* number of runs started so far
    posts,        \* main: the deduplicated, sorted posts of this run
    i,            \* main: index of the loop over posts[:30]
    bsky_ids,     \* main: ids found on Bluesky at the start of the run
    posted_ids,   \* main: the local list posted_ids
    state_ids,    \* main: the list state["posted_ids"]
    aliased,      \* posted_ids and state["posted_ids"] are the same list object
    media,        \* main: (video, gif, images) of the current post
    k,            \* post_to_bluesky_images: index of the current url
    data,         \* the bytes currently held by the publish function (length)
    assets,       \* per url of the current post: what fetch, encoder and upload did
    outcome,      \* what main reported for the current post
    creates,      \* per post id: feed.post.create calls made in this run
    processed,    \* ids of the posts handled (not skipped) so far in this run
    abandoned,    \* video/gif posts recorded without a publish call, with the run
    tmp,          \* the temporary files on disk, by the suffix they were created with
    fit,          \* negotiation harness: an asset negotiated once and again
    rpost,        \* resolver harness: the post handed to resolve_media
    rresult,      \* resolver harness: what resolve_media returned
    rpc           \* resolver harness: position

vars == <<rawPosts, file, feed, pc, run, posts, i, bsky_ids, posted_ids, state_ids,
          aliased, media, k, data, assets, outcome, creates, processed, abandoned,
          tmp, fit, rpost, rresult, rpc>>

mainVars == <<rawPosts, file, feed, pc, run, posts, i, bsky_ids, posted_ids, state_ids,
              aliased, media, k, data, assets, outcome, creates, processed, abandoned,
              tmp>>

resolverVars == <<rpost, rresult, rpc>>

harnessVars == <<rpost, rresult, rpc, fit>>

(***************************************************************************)
(* Bounds of the model.                                                    *)
(***************************************************************************)
MaxPosts == 2   \* posts in one API reply
MaxRuns == 2    \* runs of the program

(***************************************************************************)
(* Program constants.                                                      *)
(***************************************************************************)
VideoLimit == 900000     \* post_to_bluesky_video: len(data) > 900_000
GifLimit == 900000       \* post_to_bluesky_gif: len(gif_data) > 900_000
Mp4Limit == 900000       \* convert_gif_to_mp4: len(data) > 900_000
ImageLimit == 950000     \* shrink_image_if_needed: len(img_bytes) <= 950_000
KeepIds == 500           \* save_state: [-500:]
FeedLimit == 50          \* get_author_feed limit
PostsLimit == 30         \* posts[:30]
ImagesLimit == 4         \* clean[:4]

(***************************************************************************)
(* Values.                                                                 *)
(***************************************************************************)
Url(n, e) == [n |-> n, ext |-> e]
None == [n |-> 0, ext |-> "None"]          \* Python None
NoKey == [n |-> 0, ext |-> "missing"]      \* a dict without the key
Empty == [n |-> 0, ext |-> ""]             \* the empty string

\* u.lower()
lower(e) == IF e = "GIF" THEN "gif" ELSE e

\* u.endswith(".mp4")
IsMp4(u) == u.ext = "mp4"

\* u.lower().endswith(".gif")
IsGif(u) == lower(u.ext) = "gif"

Min(a, b) == IF a < b THEN a ELSE b
Max(a, b) == IF a > b THEN a ELSE b

\* s[:n]
Take(s, n) == SubSeq(s, 1, Min(n, Len(s)))

\* s[-n:]
LastN(s, n) == SubSeq(s, Max(1, Len(s) - n + 1), Len(s))

\* x in s
InSeq(x, s) == \E j \in 1..Len(s) : s[j] = x

Range(s) == {s[j] : j \in 1..Len(s)}

\* the element of s at the least index of idx, None when idx is empty
FirstAt(s, idx) ==
    IF idx = {} THEN None
    ELSE s[CHOOSE j \in idx : \A m \in idx : j <= m]

\* next((u for u in s if u.lower().endswith(".gif")), None)
FirstGif(s) == FirstAt(s, {j \in 1..Len(s) : IsGif(s[j])})

\* the first url of s that ends in .mp4, None when there is none
FirstMp4(s) == FirstAt(s, {j \in 1..Len(s) : IsMp4(s[j])})

\* clean = []; for u in urls: if u not in clean: clean.append(u)
RECURSIVE DedupeInto(_, _)
DedupeInto(urls, clean) ==
    IF Len(urls) = 0 THEN clean
    ELSE DedupeInto(Tail(urls),
                    IF InSeq(Head(urls), clean) THEN clean ELSE Append(clean, Head(urls)))

Dedupe(urls) == DedupeInto(urls, <<>>)

(***************************************************************************)
(* Markup scanning.  A fragment is the sequence of its tags that carry a   *)
(* src attribute: [tag |-> "img" | "video" | "iframe", src |-> url].       *)
(***************************************************************************)
Srcs(html) == [j \in 1..Len(html) |-> html[j].src]

\* re.findall(r'<img[^>]+src="([^"]+)"', html)
img_srcs(html) == Srcs(SelectSeq(html, LAMBDA t : t.tag = "img"))

\* re.search(r'src="([^"]+\.mp4)"', html)
mp4_src(html) == FirstMp4(Srcs(html))

(***************************************************************************)
(* Media extraction.                                                       *)
(***************************************************************************)
RECURSIVE extract_images_from_block(_)
extract_images_from_block(blocks) ==
    IF Len(blocks) = 0 THEN <<>>
    ELSE (IF Head(blocks).type = "image"
          THEN SelectSeq(Head(blocks).media, LAMBDA m : m # NoKey)
          ELSE <<>>) \o extract_images_from_block(Tail(blocks))

RECURSIVE extract_video_from_block(_)
extract_video_from_block(blocks) ==
    IF Len(blocks) = 0 THEN None
    ELSE IF Head(blocks).type = "video" /\ FirstMp4(Head(blocks).media) # None
         THEN FirstMp4(Head(blocks).media)
         ELSE extract_video_from_block(Tail(blocks))

\* for p in post.get("photos", []): try: urls.append(p["original_size"]["url"])
photo_urls(post) ==
    IF post.type = "photo" THEN SelectSeq(post.photos, LAMBDA p : p # NoKey) ELSE <<>>

\* the list urls of extract_images before it is deduplicated
image_urls(post) ==
    extract_images_from_block(post.content) \o img_srcs(post.body) \o photo_urls(post)

extract_images_cut_first(post) == Dedupe(Take(image_urls(post), ImagesLimit))

extract_images(post) == Take(Dedupe(image_urls(post)), ImagesLimit)

\* the first m.group(1) over a list of fragments
RECURSIVE first_mp4(_)
first_mp4(frags) ==
    IF Len(frags) = 0 THEN None
    ELSE IF mp4_src(Head(frags)) # None THEN mp4_src(Head(frags))
         ELSE first_mp4(Tail(frags))

extract_video(post) ==
    IF extract_video_from_block(post.content) # None
    THEN extract_video_from_block(post.content)
    ELSE IF IsMp4(post.video_url) THEN post.video_url
    ELSE IF first_mp4([j \in 1..Len(post.trail) |-> post.trail[j].content_raw]) # None
    THEN first_mp4([j \in 1..Len(post.trail) |-> post.trail[j].content_raw])
    ELSE first_mp4([j \in 1..Len(post.player) |-> post.player[j].embed_code])

Media(v, g, im) == [video |-> v, gif |-> g, images |-> im]

\* Python truth of a (video, gif, images) triple's parts
HasVideo(m) == m.video # None
HasGif(m) == m.gif # None
HasImages(m) == Len(m.images) > 0

\* Step 1 of resolve_media: this post
own_media(post) ==
    Media(extract_video(post),
          FirstGif(extract_images(post)),
          extract_images(post))

\* the trail items flagged is_root_item, in order
root_items(post) == SelectSeq(post.trail, LAMBDA t : t.is_root_item)

\* Step 2 of resolve_media: the first root trail item
root_media(root_html) ==
    Media(mp4_src(root_html),
          FirstGif(Take(Dedupe(img_srcs(root_html)), ImagesLimit)),
          Take(Dedupe(img_srcs(root_html)), ImagesLimit))

resolve_media_merge(post) ==
    IF Len(root_items(post)) > 0
    THEN Media(own_media(post).video,
               FirstGif(Take(Dedupe(own_media(post).images
                                    \o img_srcs(root_items(post)[1].content_raw)),
                             ImagesLimit)),
               Take(Dedupe(own_media(post).images
                           \o img_srcs(root_items(post)[1].content_raw)), ImagesLimit))
    ELSE own_media(post)

\* (None, None, None) is returned as a triple with no images
resolve_media(post) ==
    IF HasVideo(own_media(post)) \/ HasGif(own_media(post)) \/ HasImages(own_media(post))
    THEN own_media(post)
    ELSE IF Len(root_items(post)) > 0
         THEN root_media(root_items(post)[1].content_raw)
         ELSE Media(None, None, <<>>)

(***************************************************************************)
(* Posts.                                                                  *)
(***************************************************************************)
Post(id, ts, type, content, body, photos, video_url, trail, player) ==
    [id |-> id, timestamp |-> ts, type |-> type, content |-> content, body |-> body,
     photos |-> photos, video_url |-> video_url, trail |-> trail, player |-> player,
     post_url |-> [id |-> id, slug_digits |-> 0], caption |-> [slash_digits |-> 0]]

Block(type, ms) == [type |-> type, media |-> ms]
Tag(tag, src) == [tag |-> tag, src |-> src]
TrailItem(html, root) == [content_raw |-> html, is_root_item |-> root]
Embed(html) == [embed_code |-> html]

J(n) == Url(n, "jpg")

(***************************************************************************)
(* Resolver harness: resolve_media applied to one post drawn from the      *)
(* shapes below.                                                           *)
(***************************************************************************)
ContentShapes ==
    { <<>>,
      <<Block("image", <<J(1), J(2)>>)>>,
      <<Block("image", <<J(1), NoKey>>), Block("text", <<>>), Block("image", <<Url(3, "GIF")>>)>>,
      <<Block("video", <<NoKey, Url(1, "mp4")>>)>>,
      <<Block("video", <<J(9)>>)>> }

BodyShapes ==
    { <<>>,
      <<Tag("img", J(2)), Tag("img", J(3)), Tag("img", J(4))>>,
      <<Tag("img", J(1)), Tag("img", J(1)), Tag("img", J(5)), Tag("video", Url(4, "mp4"))>> }

PhotoShapes ==
    { [type |-> "text", photos |-> <<>>],
      [type |-> "photo", photos |-> <<J(4), NoKey, J(5), J(6)>>],
      [type |-> "text", photos |-> <<J(7)>>],
      [type |-> "photo", photos |-> <<Url(6, "gif")>>] }

VideoUrlShapes == { Empty, Url(2, "mp4"), J(8) }

TrailShapes ==
    { <<>>,
      <<TrailItem(<<Tag("img", J(7))>>, FALSE)>>,
      <<TrailItem(<<>>, FALSE),
        TrailItem(<<Tag("img", Url(8, "gif")), Tag("img", J(1)), Tag("img", J(1)),
                    Tag("img", J(2)), Tag("img", J(3)), Tag("img", J(4))>>, TRUE)>>,
      <<TrailItem(<<Tag("img", J(1))>>, TRUE), TrailItem(<<Tag("img", J(2))>>, TRUE)>>,
      <<TrailItem(<<>>, TRUE)>>,
      <<TrailItem(<<Tag("img", J(5)), Tag("video", Url(3, "mp4"))>>, TRUE)>> }

PlayerShapes == { <<>>, <<Embed(<<Tag("iframe", J(9))>>), Embed(<<Tag("video", Url(5, "mp4"))>>)>> }

PostShapes ==
    { Post(1, 1, ph.type, c, b, ph.photos, v, t, pl) :
        c \in ContentShapes, b \in BodyShapes, ph \in PhotoShapes,
        v \in VideoUrlShapes, t \in TrailShapes, pl \in PlayerShapes }

NoFit == [pc |-> "off"]

NoPost == Post(0, 0, "text", <<>>, <<>>, <<>>, Empty, <<>>, <<>>)
NoMedia == Media(None, None, <<>>)

resolve_call ==
    /\ rpc = "call"
    /\ rresult' = resolve_media(rpost)
    /\ rpc' = "returned"
    /\ UNCHANGED <<rpost, fit, mainVars>>

MainIdle ==
    /\ rawPosts = <<>> /\ file = <<>> /\ feed = <<>> /\ pc = "off" /\ run = 0
    /\ posts = <<>> /\ i = 0 /\ bsky_ids = {} /\ posted_ids = <<>> /\ state_ids = <<>>
    /\ aliased = FALSE /\ media = NoMedia /\ k = 0 /\ data = 0 /\ assets = <<>>
    /\ outcome = "none" /\ creates = <<>> /\ processed = <<>> /\ abandoned = {}
    /\ tmp = {}

InitResolve ==
    /\ rpost \in PostShapes
    /\ rresult = NoMedia
    /\ rpc = "call"
    /\ fit = NoFit
    /\ MainIdle

NextResolve == resolve_call

SpecResolve == InitResolve /\ [][NextResolve]_vars

(***************************************************************************)
(* Properties of resolve_media (checked under SpecResolve).                *)
(***************************************************************************)
\* the urls the post itself offers, as sets, read off the post's fields
OwnImageSet(post) ==
    UNION { Range(post.content[b].media) \ {NoKey} :
              b \in {x \in 1..Len(post.content) : post.content[x].type = "image"} }
    \cup { post.body[t].src : t \in {x \in 1..Len(post.body) : post.body[x].tag = "img"} }
    \cup (IF post.type = "photo" THEN Range(post.photos) \ {NoKey} ELSE {})

Mp4Set(html) == { html[t].src : t \in {x \in 1..Len(html) : html[x].src.ext = "mp4"} }

OwnVideoSet(post) ==
    UNION { {u \in Range(post.content[b].media) : u.ext = "mp4"} :
              b \in {x \in 1..Len(post.content) : post.content[x].type = "video"} }
    \cup (IF post.video_url.ext = "mp4" THEN {post.video_url} ELSE {})
    \cup UNION { Mp4Set(post.trail[t].content_raw) : t \in 1..Len(post.trail) }
    \cup UNION { Mp4Set(post.player[t].embed_code) : t \in 1..Len(post.player) }

OwnYields(post) == OwnImageSet(post) # {} \/ OwnVideoSet(post) # {}

HasRoot(post) == \E t \in 1..Len(post.trail) : post.trail[t].is_root_item

\* the fragment of the first trail item flagged as root
RootHtml(post) ==
    post.trail[CHOOSE t \in 1..Len(post.trail) :
                 /\ post.trail[t].is_root_item
                 /\ \A m \in 1..(t - 1) : ~post.trail[m].is_root_item].content_raw

RootImageSet(post) ==
    { RootHtml(post)[t].src :
        t \in {x \in 1..Len(RootHtml(post)) : RootHtml(post)[x].tag = "img"} }

Reports(m) == m.video # None \/ m.gif # None \/ Len(m.images) > 0

\* C9: the root trail item's media is used exactly when the post itself offers no
\* video, gif or image; own media is never replaced by or merged with the root's;
\* and nothing is reported only if neither the post nor its root item offers media.
C9_RootFallback ==
    rpc = "returned" =>
        /\ OwnYields(rpost) =>
              /\ Range(rresult.images) \subseteq OwnImageSet(rpost)
              /\ (OwnImageSet(rpost) # {}) = (Len(rresult.images) > 0)
              /\ (OwnVideoSet(rpost) # {}) = (rresult.video # None)
              /\ rresult.video # None => rresult.video \in OwnVideoSet(rpost)
              /\ rresult.gif # None => rresult.gif \in OwnImageSet(rpost)
        /\ (~OwnYields(rpost) /\ HasRoot(rpost)) =>
              /\ Range(rresult.images) \subseteq RootImageSet(rpost)
              /\ (RootImageSet(rpost) # {}) = (Len(rresult.images) > 0)
              /\ rresult.video = None
              /\ rresult.gif # None => rresult.gif \in RootImageSet(rpost)
        /\ ~Reports(rresult) =>
              /\ ~OwnYields(rpost)
              /\ HasRoot(rpost) => RootImageSet(rpost) = {} /\ Mp4Set(RootHtml(rpost)) = {}

\* a reblog without media of its own took its root item's images
C9_Witness ==
    /\ rpc = "returned"
    /\ ~OwnYields(rpost)
    /\ HasRoot(rpost)
    /\ Len(rresult.images) > 1
    /\ rresult.gif # None

\* position j holds the first occurrence of its url
FirstOccurrence(urls, j) == \A m \in 1..(j - 1) : urls[m] # urls[j]

\* the m-th distinct url of the list, in first-occurrence order
NthDistinct(urls, m) ==
    urls[CHOOSE j \in 1..Len(urls) :
           /\ FirstOccurrence(urls, j)
           /\ Cardinality({q \in 1..(j - 1) : FirstOccurrence(urls, q)}) = m - 1]

FirstFourOf(im, urls) ==
    /\ Len(im) = 4
    /\ \A m \in 1..4 : im[m] = NthDistinct(urls, m)

\* C10: the returned image list never exceeds 4 urls nor repeats one, and when the
\* collected urls hold more than 4 distinct ones it is the first 4 distinct urls in
\* first-occurrence order (own sources, or the root item's when the fallback runs).
C10_FirstFourDistinct ==
    rpc = "returned" =>
        /\ Len(rresult.images) <= 4
        /\ \A a, b \in 1..Len(rresult.images) : a # b => rresult.images[a] # rresult.images[b]
        /\ Cardinality(Range(image_urls(rpost))) > 4 =>
              FirstFourOf(rresult.images, image_urls(rpost))
        /\ (~OwnYields(rpost) /\ HasRoot(rpost)
              /\ Cardinality(Range(img_srcs(RootHtml(rpost)))) > 4) =>
              FirstFourOf(rresult.images, img_srcs(RootHtml(rpost)))

\* more than 4 distinct urls with a repeat among the first ones, cut to 4
C10_Witness ==
    /\ rpc = "returned"
    /\ Cardinality(Range(image_urls(rpost))) > 4
    /\ Len(image_urls(rpost)) > Cardinality(Range(image_urls(rpost)))
    /\ ~FirstOccurrence(image_urls(rpost), 3)
    /\ Len(rresult.images) = 4

(***************************************************************************)
(* The crossposter: main() over several runs.                              *)
(***************************************************************************)
\* lengths of the byte strings a download or an encoder may produce
Sizes == {800000, 920000, 2000000}

\* what upload_blob may answer: a blob, its too-large error, another error
UploadAnswers == {"ok", "toolarge", "error"}

\* what requests.get / subprocess.run + open().read() may answer
Answers == {[ok |-> FALSE, len |-> 0]} \cup {[ok |-> TRUE, len |-> n] : n \in Sizes}

\* the posts the blog may hold
Pool ==
    { Post(1, 5, "text", <<Block("video", <<Url(1, "mp4")>>)>>,
           <<Tag("img", Url(2, "gif")), Tag("img", J(3))>>, <<>>, Empty, <<>>, <<>>),
      Post(2, 3, "text", <<>>,
           <<Tag("img", J(4)), Tag("img", Url(5, "gif")), Tag("img", Url(9, "GIF"))>>,
           <<>>, Empty, <<>>, <<>>),
      [Post(3, 4, "text", <<Block("image", <<J(6)>>), Block("image", <<J(7)>>)>>,
            <<>>, <<>>, Empty, <<>>, <<>>) EXCEPT !.caption = [slash_digits |-> 7]],
      Post(4, 1, "text", <<>>, <<>>, <<>>, Empty, <<>>, <<>>),
      Post(5, 2, "text", <<>>, <<>>, <<>>, Empty,
           <<TrailItem(<<>>, FALSE), TrailItem(<<Tag("img", Url(8, "gif"))>>, TRUE)>>, <<>>) }

PoolIds == {p.id : p \in Pool}

SeqsUpTo(S, n) == UNION {[1..m -> S] : m \in 0..n}

\* load_state(): the list under "posted_ids"
load_state(f) == f

\* save_state(): what is written for state["posted_ids"]
save_state(ids) == LastN(ids, KeepIds)

\* get_recent_tumblr_posts(): the first post of every id
RECURSIVE clean_posts(_, _)
clean_posts(ps, clean) ==
    IF Len(ps) = 0 THEN clean
    ELSE clean_posts(Tail(ps),
                     IF \E j \in 1..Len(clean) : clean[j].id = Head(ps).id
                     THEN clean ELSE Append(clean, Head(ps)))

get_recent_tumblr_posts(raw) == clean_posts(raw, <<>>)

\* sorted(posts, key=timestamp): stable
RECURSIVE sort_into(_, _)
sort_into(ps, acc) ==
    IF Len(ps) = 0 THEN acc
    ELSE LET n == Cardinality({j \in 1..Len(acc) : acc[j].timestamp <= Head(ps).timestamp})
         IN sort_into(Tail(ps), SubSeq(acc, 1, n) \o <<Head(ps)>> \o SubSeq(acc, n + 1, Len(acc)))

sorted_by_timestamp(ps) == sort_into(ps, <<>>)

\* make_post_text(): "(post_url) caption".  Of the url the model keeps the post id
\* in its path and the digits that open the path segment after it (0: none); of the
\* caption (the post's, or the reblog caption) the digits that follow its last "/"
\* that has digits after it (0: none)
make_post_text(post) == [url |-> post.post_url, caption |-> post.caption]

\* re.search(r"tumblr\.com/.+/(\d+)", text): the greedy .+ runs to the last "/" of
\* the text that digits follow; 0 stands for no match
text_id(text) ==
    IF text.url.id = 0 THEN 0
    ELSE IF text.caption.slash_digits # 0 THEN text.caption.slash_digits
    ELSE IF text.url.slug_digits # 0 THEN text.url.slug_digits
    ELSE text.url.id

\* get_recent_bsky_tumblr_ids(): ids in the texts of the latest feed items
get_recent_bsky_tumblr_ids(f) ==
    {LastN(f, FeedLimit)[j].text_id : j \in 1..Len(LastN(f, FeedLimit))} \ {0}

\* shrink_image_if_needed(img_bytes), given what ImageMagick answers
shrink_image_if_needed(img, enc) ==
    IF img <= ImageLimit THEN img
    ELSE IF enc.ok THEN enc.len ELSE img

\* convert_gif_to_mp4(gif_bytes), given what ffmpeg answers: None is [ok |-> FALSE]
convert_gif_to_mp4(enc) ==
    IF ~enc.ok THEN [ok |-> FALSE, len |-> 0]
    ELSE IF enc.len > Mp4Limit THEN [ok |-> FALSE, len |-> 0]
    ELSE enc

\* the files an encoder call leaves on disk: the NamedTemporaryFile(delete=False) it
\* wrote its input to and, when the encoder produced one, the output file; no code
\* path removes either
TempFiles(in_suffix, out_suffix, enc) ==
    IF enc.ok THEN {in_suffix, out_suffix} ELSE {in_suffix}

cur == posts[i]

Asset(fn, url, r) ==
    [fn |-> fn, url |-> url, fetch |-> IF r.ok THEN "ok" ELSE "raise", got |-> r.len,
     enc |-> "notrun", out |-> 0, sent |-> 0, up |-> "none", signal |-> "none"]

last == assets[Len(assets)]
SetLast(a) == [assets EXCEPT ![Len(assets)] = a]

Entry(embed, n) ==
    [post |-> cur.id, text_id |-> text_id(make_post_text(cur)), embed |-> embed, n |-> n]

runVars == <<rawPosts, run, posts, bsky_ids>>
stateVars == <<file, posted_ids, state_ids, aliased, processed, abandoned>>

\* the publish function raised: main's except branch
Raised ==
    /\ outcome' = "error"
    /\ pc' = "record"

\* the publish function returned (a result or None): main reports success
Returned ==
    /\ outcome' = "posted"
    /\ pc' = "record"

Init ==
    /\ rawPosts \in SeqsUpTo(Pool, MaxPosts)
    /\ file = <<>>
    /\ feed = <<>>
    /\ pc = "idle"
    /\ run = 0
    /\ posts = <<>> /\ i = 0 /\ bsky_ids = {}
    /\ posted_ids = <<>> /\ state_ids = <<>> /\ aliased = FALSE
    /\ media = NoMedia /\ k = 0 /\ data = 0 /\ assets = <<>> /\ outcome = "none"
    /\ creates = [id \in PoolIds |-> 0]
    /\ processed = <<>>
    /\ abandoned = {}
    /\ tmp = {}
    /\ fit = NoFit
    /\ rpost = NoPost /\ rresult = NoMedia /\ rpc = "off"

\* main(): client, bsky_ids, state, posts; the run has posts
main_start ==
    /\ pc = "idle"
    /\ run < MaxRuns
    /\ Len(get_recent_tumblr_posts(rawPosts)) > 0
    /\ run' = run + 1
    /\ bsky_ids' = get_recent_bsky_tumblr_ids(feed)
    /\ posted_ids' = load_state(file)
    /\ state_ids' = load_state(file)
    /\ aliased' = TRUE
    /\ posts' = Take(sorted_by_timestamp(get_recent_tumblr_posts(rawPosts)), PostsLimit)
    /\ i' = 1
    /\ pc' = "loop"
    /\ creates' = [id \in PoolIds |-> 0]
    /\ processed' = <<>>
    /\ UNCHANGED <<rawPosts, file, feed, media, k, data, assets, outcome, abandoned,
                   harnessVars, tmp>>

\* main(): "No Tumblr posts found."
main_noposts ==
    /\ pc = "idle"
    /\ run < MaxRuns
    /\ Len(get_recent_tumblr_posts(rawPosts)) = 0
    /\ run' = run + 1
    /\ bsky_ids' = get_recent_bsky_tumblr_ids(feed)
    /\ posted_ids' = load_state(file)
    /\ state_ids' = load_state(file)
    /\ aliased' = TRUE
    /\ UNCHANGED <<rawPosts, file, feed, pc, posts, i, media, k, data, assets, outcome,
                   creates, processed, abandoned, harnessVars, tmp>>

\* a skip that also appends the id and saves the state
main_skip_marks ==
    /\ pc = "loop"
    /\ i <= Len(posts)
    /\ InSeq(cur.id, posted_ids) \/ cur.id \in bsky_ids
    /\ posted_ids' = Append(posted_ids, cur.id)
    /\ state_ids' = save_state(IF aliased THEN posted_ids' ELSE state_ids)
    /\ aliased' = FALSE
    /\ file' = state_ids'
    /\ i' = i + 1
    /\ UNCHANGED <<runVars, processed, abandoned, feed, pc, media, k, data, assets, outcome,
                   creates, harnessVars, tmp>>

\* "Already posted - skipping."
main_skip ==
    /\ pc = "loop"
    /\ i <= Len(posts)
    /\ InSeq(cur.id, posted_ids) \/ cur.id \in bsky_ids
    /\ i' = i + 1
    /\ UNCHANGED <<runVars, stateVars, feed, pc, media, k, data, assets, outcome, creates,
                   harnessVars, tmp>>

\* main() testing images before gif
Branch_images_first(m) ==
    IF HasVideo(m) THEN "video_fetch"
    ELSE IF HasImages(m) THEN "images_fetch"
    ELSE IF HasGif(m) THEN "gif_fetch"
    ELSE "record"

\* where main goes after resolve_media: video, else gif, else images, else nothing
Branch(m) ==
    IF HasVideo(m) THEN "video_fetch"
    ELSE IF HasGif(m) THEN "gif_fetch"
    ELSE IF HasImages(m) THEN "images_fetch"
    ELSE "record"

main_resolve ==
    /\ pc = "loop"
    /\ i <= Len(posts)
    /\ ~(InSeq(cur.id, posted_ids) \/ cur.id \in bsky_ids)
    /\ media' = resolve_media(cur)
    /\ pc' = Branch(media')
    /\ outcome' = IF Branch(media') = "record" THEN "nothing" ELSE "none"
    /\ k' = 1
    /\ data' = 0
    /\ assets' = <<>>
    /\ UNCHANGED <<runVars, stateVars, feed, i, creates, harnessVars, tmp>>

(***************************************************************************)
(* post_to_bluesky_video                                                   *)
(***************************************************************************)
\* data = requests.get(video_url).content
video_fetch ==
    /\ pc = "video_fetch"
    /\ \E r \in Answers :
          /\ assets' = Append(assets, Asset("video", media.video, r))
          /\ IF r.ok
             THEN /\ data' = r.len
                  /\ pc' = IF r.len > VideoLimit THEN "video_reencode" ELSE "video_upload"
                  /\ UNCHANGED outcome
             ELSE /\ Raised
                  /\ UNCHANGED data
    /\ UNCHANGED <<runVars, stateVars, feed, i, media, k, creates, harnessVars, tmp>>

\* ffmpeg ... out_path; data = f.read(); except: return None
video_reencode ==
    /\ pc = "video_reencode"
    /\ \E enc \in Answers :
          /\ tmp' = tmp \cup TempFiles(".mp4", "_small.mp4", enc)
          /\ assets' = SetLast([last EXCEPT !.enc = IF enc.ok THEN "ok" ELSE "fail",
                                            !.out = enc.len])
          /\ IF enc.ok
             THEN /\ data' = enc.len
                  /\ pc' = "video_upload"
                  /\ UNCHANGED outcome
             ELSE /\ Returned
                  /\ UNCHANGED data
    /\ UNCHANGED <<runVars, stateVars, feed, i, media, k, creates, harnessVars>>

\* blob = client.com.atproto.repo.upload_blob(data)
video_upload ==
    /\ pc = "video_upload"
    /\ \E ans \in UploadAnswers :
          /\ assets' = SetLast([last EXCEPT !.sent = data,
                                            !.up = IF ans = "ok" THEN "ok" ELSE "raise",
                                            !.signal = IF ans = "ok" THEN "none" ELSE ans])
          /\ IF ans = "ok"
             THEN pc' = "video_create" /\ UNCHANGED outcome
             ELSE Raised
    /\ UNCHANGED <<runVars, stateVars, feed, i, media, k, data, creates, harnessVars, tmp>>

\* return client.app.bsky.feed.post.create(... app.bsky.embed.video ...)
video_create ==
    /\ pc = "video_create"
    /\ creates' = [creates EXCEPT ![cur.id] = @ + 1]
    /\ \E ok \in BOOLEAN :
          IF ok
          THEN feed' = Append(feed, Entry("video", 0)) /\ Returned
          ELSE UNCHANGED feed /\ Raised
    /\ UNCHANGED <<runVars, stateVars, i, media, k, data, assets, harnessVars, tmp>>

(***************************************************************************)
(* post_to_bluesky_gif                                                     *)
(***************************************************************************)
\* gif_data = requests.get(gif_url).content
gif_fetch ==
    /\ pc = "gif_fetch"
    /\ \E r \in Answers :
          /\ assets' = Append(assets, Asset("gif", media.gif, r))
          /\ IF r.ok
             THEN /\ data' = r.len
                  /\ pc' = IF r.len > GifLimit THEN "gif_convert" ELSE "gif_upload"
                  /\ UNCHANGED outcome
             ELSE /\ Raised
                  /\ UNCHANGED data
    /\ UNCHANGED <<runVars, stateVars, feed, i, media, k, creates, harnessVars, tmp>>

\* mp4 = convert_gif_to_mp4(gif_data); if not mp4: return None
gif_convert ==
    /\ pc = "gif_convert"
    /\ \E enc \in Answers :
          /\ tmp' = tmp \cup TempFiles(".gif", ".mp4", enc)
          /\ assets' = SetLast([last EXCEPT !.enc = IF enc.ok THEN "ok" ELSE "fail",
                                            !.out = enc.len])
          /\ IF convert_gif_to_mp4(enc).ok
             THEN /\ data' = convert_gif_to_mp4(enc).len
                  /\ pc' = "gif_upload"
                  /\ UNCHANGED outcome
             ELSE /\ Returned
                  /\ UNCHANGED data
    /\ UNCHANGED <<runVars, stateVars, feed, i, media, k, creates, harnessVars>>

\* blob = upload_blob(mp4) for a converted gif, upload_blob(gif_data) for a small one
gif_upload ==
    /\ pc = "gif_upload"
    /\ \E ans \in UploadAnswers :
          /\ assets' = SetLast([last EXCEPT !.sent = data,
                                            !.up = IF ans = "ok" THEN "ok" ELSE "raise",
                                            !.signal = IF ans = "ok" THEN "none" ELSE ans])
          /\ IF ans = "ok"
             THEN pc' = "gif_create" /\ UNCHANGED outcome
             ELSE Raised
    /\ UNCHANGED <<runVars, stateVars, feed, i, media, k, data, creates, harnessVars, tmp>>

\* post_to_bluesky_gif whose large-gif branch does not return: the small-gif
\* code below it publishes the post again
gif_create_no_return ==
    /\ pc = "gif_create"
    /\ creates' = [creates EXCEPT ![cur.id] = IF last.got > GifLimit THEN @ + 2 ELSE @ + 1]
    /\ \E ok \in BOOLEAN :
          IF ok
          THEN /\ feed' = Append(feed, IF last.got > GifLimit
                                       THEN Entry("video", 0) ELSE Entry("images", 1))
               /\ Returned
          ELSE UNCHANGED feed /\ Raised
    /\ UNCHANGED <<runVars, stateVars, i, media, k, data, assets, harnessVars, tmp>>

\* a video embed for a converted gif, an images embed of one image for a small one
gif_create ==
    /\ pc = "gif_create"
    /\ creates' = [creates EXCEPT ![cur.id] = @ + 1]
    /\ \E ok \in BOOLEAN :
          IF ok
          THEN /\ feed' = Append(feed, IF last.got > GifLimit
                                       THEN Entry("video", 0) ELSE Entry("images", 1))
               /\ Returned
          ELSE UNCHANGED feed /\ Raised
    /\ UNCHANGED <<runVars, stateVars, i, media, k, data, assets, harnessVars, tmp>>

(***************************************************************************)
(* post_to_bluesky_images                                                  *)
(***************************************************************************)
\* data = requests.get(url).content
images_fetch ==
    /\ pc = "images_fetch"
    /\ \E r \in Answers :
          /\ assets' = Append(assets, Asset("images", media.images[k], r))
          /\ IF r.ok
             THEN /\ data' = r.len
                  /\ pc' = "images_shrink"
                  /\ UNCHANGED outcome
             ELSE /\ Raised
                  /\ UNCHANGED data
    /\ UNCHANGED <<runVars, stateVars, feed, i, media, k, creates, harnessVars, tmp>>

\* data = shrink_image_if_needed(data)
images_shrink ==
    /\ pc = "images_shrink"
    /\ \E enc \in Answers :
          /\ tmp' = IF data <= ImageLimit THEN tmp
                    ELSE tmp \cup TempFiles(".jpg", ".jpg_small.jpg", enc)
          /\ data' = shrink_image_if_needed(data, enc)
          /\ assets' = IF data <= ImageLimit THEN assets
                       ELSE SetLast([last EXCEPT !.enc = IF enc.ok THEN "ok" ELSE "fail",
                                                 !.out = enc.len])
    /\ pc' = "images_upload"
    /\ UNCHANGED <<runVars, stateVars, feed, i, media, k, outcome, creates, harnessVars>>

\* blob = upload_blob(data); uploaded.append(...)
images_upload ==
    /\ pc = "images_upload"
    /\ \E ans \in UploadAnswers :
          /\ assets' = SetLast([last EXCEPT !.sent = data,
                                            !.up = IF ans = "ok" THEN "ok" ELSE "raise",
                                            !.signal = IF ans = "ok" THEN "none" ELSE ans])
          /\ IF ans = "ok"
             THEN /\ k' = k + 1
                  /\ pc' = IF k = Len(media.images) THEN "images_create" ELSE "images_fetch"
                  /\ UNCHANGED outcome
             ELSE /\ Raised
                  /\ UNCHANGED k
    /\ UNCHANGED <<runVars, stateVars, feed, i, media, data, creates, harnessVars, tmp>>

\* return client.app.bsky.feed.post.create(... app.bsky.embed.images ...)
images_create ==
    /\ pc = "images_create"
    /\ creates' = [creates EXCEPT ![cur.id] = @ + 1]
    /\ \E ok \in BOOLEAN :
          IF ok
          THEN feed' = Append(feed, Entry("images", Len(assets))) /\ Returned
          ELSE UNCHANGED feed /\ Raised
    /\ UNCHANGED <<runVars, stateVars, i, media, k, data, assets, harnessVars, tmp>>

(***************************************************************************)
(* main(): after the post's branch                                         *)
(***************************************************************************)
\* main() whose video branch lacks its continue: the gif branch runs next
main_record_no_continue ==
    /\ pc = "record"
    /\ posted_ids' = Append(posted_ids, cur.id)
    /\ state_ids' = save_state(IF aliased THEN posted_ids' ELSE state_ids)
    /\ aliased' = FALSE
    /\ file' = state_ids'
    /\ processed' = Append(processed, cur.id)
    /\ abandoned' = abandoned
    /\ IF Len(assets) > 0 /\ assets[1].fn = "video" /\ HasGif(media)
       THEN /\ pc' = "gif_fetch"
            /\ UNCHANGED <<i, media>>
       ELSE /\ pc' = "loop"
            /\ i' = i + 1
            /\ media' = NoMedia
    /\ k' = 0 /\ data' = 0 /\ assets' = <<>> /\ outcome' = "none"
    /\ UNCHANGED <<runVars, feed, creates, harnessVars, tmp>>

\* posted_ids.append(post_id); save_state(state); continue
main_record ==
    /\ pc = "record"
    /\ posted_ids' = Append(posted_ids, cur.id)
    /\ state_ids' = save_state(IF aliased THEN posted_ids' ELSE state_ids)
    /\ aliased' = FALSE
    /\ file' = state_ids'
    /\ processed' = Append(processed, cur.id)
    /\ abandoned' = IF /\ Len(assets) > 0
                       /\ assets[1].fn \in {"video", "gif"}
                       /\ creates[cur.id] = 0
                    THEN abandoned \cup {[id |-> cur.id, run |-> run]}
                    ELSE abandoned
    /\ i' = i + 1
    /\ pc' = "loop"
    /\ media' = NoMedia /\ k' = 0 /\ data' = 0 /\ assets' = <<>> /\ outcome' = "none"
    /\ UNCHANGED <<runVars, feed, creates, harnessVars, tmp>>

\* the process ends after the publish function returned and before the id is
\* appended and saved: its memory is gone, the file, the feed and the disk stay
crash ==
    /\ pc = "record"
    /\ pc' = "idle"
    /\ media' = NoMedia /\ k' = 0 /\ data' = 0 /\ assets' = <<>> /\ outcome' = "none"
    /\ UNCHANGED <<runVars, stateVars, feed, i, creates, harnessVars, tmp>>

\* the loop is over: "Done!"
main_done ==
    /\ pc = "loop"
    /\ i > Len(posts)
    /\ pc' = "idle"
    /\ UNCHANGED <<runVars, stateVars, feed, i, media, k, data, assets, outcome, creates,
                   harnessVars, tmp>>

Next ==
    \/ main_start \/ main_noposts \/ main_skip \/ main_resolve
    \/ video_fetch \/ video_reencode \/ video_upload \/ video_create
    \/ gif_fetch \/ gif_convert \/ gif_upload \/ gif_create
    \/ images_fetch \/ images_shrink \/ images_upload \/ images_create
    \/ main_record \/ crash \/ main_done

Spec == Init /\ [][Next]_vars

(***************************************************************************)
(* Properties of the crossposter (checked under Spec).                     *)
(***************************************************************************)
PublishPcs ==
    {"video_fetch", "video_reencode", "video_upload", "video_create",
     "gif_fetch", "gif_convert", "gif_upload", "gif_create",
     "images_fetch", "images_shrink", "images_upload", "images_create"}

\* the urls of the candidate main picked
Needed(m) == IF HasVideo(m) \/ HasGif(m) THEN 1 ELSE Len(m.images)

\* every url of the candidate was fetched and its bytes were accepted by upload_blob
\* (so no step before the upload gave the post up)
AllSucceeded ==
    /\ Reports(media)
    /\ Len(assets) = Needed(media)
    /\ \A j \in 1..Len(assets) : assets[j].fetch = "ok" /\ assets[j].up = "ok"

\* C1: within a run feed.post.create is called at most once per post, and exactly
\* once for a post whose candidate resolved and whose assets were all fetched,
\* negotiated and uploaded.
C1_PublishOnce ==
    /\ \A id \in PoolIds : creates[id] <= 1
    /\ (pc = "record" /\ AllSucceeded) => creates[cur.id] = 1

\* the second post of a run, a re-encoded asset, published once
C1_Witness ==
    /\ pc = "record"
    /\ i = 2
    /\ AllSucceeded
    /\ assets[1].enc = "ok"
    /\ creates[cur.id] = 1
    /\ creates[posts[1].id] = 1

\* what the code compares an asset of each publish function against
Ceiling(fn) == IF fn = "images" THEN ImageLimit ELSE VideoLimit

\* C2: every byte string handed to upload_blob is within the ceiling.
C2_UploadWithinCeiling ==
    \A j \in 1..Len(assets) :
        assets[j].up # "none" => assets[j].sent <= Ceiling(assets[j].fn)

\* C3: before the next post is started, the saved record holds the ids of all the
\* posts processed so far in the run.
C3_ProcessedPersisted ==
    pc = "loop" => \A j \in 1..Len(processed) : InSeq(processed[j], file)

\* C4: a post abandoned for a video or gif failure is never fetched again in a
\* later run.
C4_AbandonedNeverRetried ==
    \A a \in abandoned :
        (a.run < run /\ pc \in PublishPcs) => cur.id # a.id

\* a fetch, negotiation or upload failure of a video or gif asset
Failed(a) ==
    \/ a.fetch = "raise"
    \/ a.enc = "fail"
    \/ a.enc = "ok" /\ a.out > Ceiling(a.fn)
    \/ a.up = "raise"

\* C5: a video or gif post with a failed fetch, negotiation or upload is recorded
\* without any publish call.
C5_VideoGifFailureAbandons ==
    (pc = "record" /\ Len(assets) > 0 /\ last.fn \in {"video", "gif"} /\ Failed(last))
        => creates[cur.id] = 0

\* the encoder could not bring the image under the limit
NegotiationFailed(a) == a.enc = "fail" \/ (a.enc = "ok" /\ a.out > ImageLimit)

\* C6: an image whose negotiation failed is left out of the upload, and an image
\* post is recorded without a publish call only if every image of the set failed.
C6_ImagesDegrade ==
    (pc = "record" /\ Len(assets) > 0 /\ last.fn = "images") =>
        /\ \A j \in 1..Len(assets) : NegotiationFailed(assets[j]) => assets[j].up = "none"
        /\ creates[cur.id] = 0 =>
              /\ Len(assets) = Len(media.images)
              /\ \A j \in 1..Len(assets) : Failed(assets[j])

\* C7: one publish function per post, video before gif before images, and no fall
\* through to a lower kind; a published record carries one kind of embed.
C7_OneMediaKind ==
    /\ pc \in {"gif_fetch", "gif_convert", "gif_upload", "gif_create"} => ~HasVideo(media)
    /\ pc \in {"images_fetch", "images_shrink", "images_upload", "images_create"} =>
          ~HasVideo(media) /\ ~HasGif(media)
    /\ \A j \in 1..Len(assets) :
          assets[j].fn = (IF HasVideo(media) THEN "video"
                          ELSE IF HasGif(media) THEN "gif" ELSE "images")
    /\ \A j \in 1..Len(feed) :
          \/ feed[j].embed = "video" /\ feed[j].n = 0
          \/ feed[j].embed = "images" /\ feed[j].n \in 1..ImagesLimit

\* a post with a video, a gif and images whose video publish failed
C7_Witness ==
    /\ pc = "record"
    /\ HasVideo(media) /\ HasGif(media) /\ Len(media.images) > 1
    /\ Failed(last)
    /\ creates[cur.id] = 0

\* C8: for an oversized image the bytes fit returns are those of an encoding that
\* came out within the limit; otherwise it returns no bytes.
C8_FirstFittingPair ==
    (pc = "images_upload" /\ last.got > ImageLimit) =>
        /\ last.enc = "ok"
        /\ last.out <= ImageLimit
        /\ data = last.out

\* the image list holds a .gif url and an url that is no gif
MixedImages(im) ==
    /\ \E a \in 1..Len(im) : im[a].ext \in {"gif", "GIF"}
    /\ \E b \in 1..Len(im) : im[b].ext \notin {"gif", "GIF"}

\* C11: without a video, an image list that mixes a .gif url with other images is
\* handled by the gif function alone, for the first gif of the list; the other
\* images are neither fetched nor published.
C11_GifOverImages ==
    (~HasVideo(media) /\ MixedImages(media.images)) =>
        /\ pc \notin {"images_fetch", "images_shrink", "images_upload", "images_create"}
        /\ Len(assets) <= 1
        /\ \A j \in 1..Len(assets) :
              /\ assets[j].fn = "gif"
              /\ assets[j].url.ext \in {"gif", "GIF"}
              /\ \E a \in 1..Len(media.images) :
                    /\ media.images[a] = assets[j].url
                    /\ \A b \in 1..(a - 1) : media.images[b].ext \notin {"gif", "GIF"}
        /\ (pc = "record" /\ outcome = "posted" /\ creates[cur.id] = 1) =>
              /\ feed[Len(feed)].post = cur.id
              /\ feed[Len(feed)].n <= 1

\* a jpg, a gif and a second gif: the first gif alone was fetched and published
C11_Witness ==
    /\ pc = "record"
    /\ ~HasVideo(media)
    /\ Len(media.images) = 3
    /\ media.images[1].ext = "jpg"
    /\ Len(assets) = 1
    /\ assets[1].url = media.images[2]
    /\ creates[cur.id] = 1
    /\ outcome = "posted"

\* C17: main reports a post as posted only if feed.post.create was called for it
\* and returned.
C17_PostedMeansPublished ==
    (pc = "record" /\ outcome = "posted") =>
        /\ creates[cur.id] = 1
        /\ Len(feed) > 0
        /\ feed[Len(feed)].post = cur.id

\* C12: once an encoder operation has returned, none of its temporary files is
\* left on disk.
C12_NoTempFileLeft == tmp = {}

\* C13: a post's processing does not end on an upload answered with the too-large
\* signal; the asset is negotiated and uploaded again.
C13_TooLargeRenegotiated ==
    pc = "record" => \A j \in 1..Len(assets) : assets[j].signal # "toolarge"

\* the records on the destination that were published for the post
Published(id) == {j \in 1..Len(feed) : feed[j].post = id}

\* C15: over all runs, crashes included, no post is published more than once.
C15_PublishedOnce == \A id \in PoolIds : Cardinality(Published(id)) <= 1

\* C18: after every save_state the saved record holds at most 500 ids, the most
\* recently appended ones in append order.
C18_SavedIsRecentIds ==
    (pc = "loop" /\ Len(processed) > 0) =>
        /\ Len(file) <= KeepIds
        /\ file = LastN(posted_ids, KeepIds)

\* main is at a post whose id is in the loaded record or among the ids found on
\* the destination
AtKnownPost ==
    /\ pc = "loop"
    /\ i <= Len(posts)
    /\ InSeq(cur.id, posted_ids) \/ cur.id \in bsky_ids

\* C16: a post whose id is already known is skipped with no effect: the loop moves
\* on, and nothing is resolved, fetched, encoded, uploaded, published or recorded.
C16_SkipHasNoEffect ==
    [][AtKnownPost =>
          /\ pc' = "loop"
          /\ i' = i + 1
          /\ UNCHANGED <<file, posted_ids, state_ids, processed, feed, creates, tmp,
                         media, assets, data, k, outcome>>]_vars

\* the first post of a second run was skipped
C16_Witness ==
    /\ pc = "loop"
    /\ run = 2
    /\ i = 2
    /\ processed = <<>>
    /\ InSeq(posts[1].id, posted_ids) \/ posts[1].id \in bsky_ids

(***************************************************************************)
(* Negotiation harness: the size negotiation of each publish function,     *)
(* applied to an asset and then to its own result.                         *)
(***************************************************************************)
Bytes(n) == [ok |-> TRUE, len |-> n]
Failure == [ok |-> FALSE, len |-> 0]

\* the encoder is invoked for an asset of this kind and length
encoder_runs(kind, n) ==
    IF kind = "image" THEN n > ImageLimit
    ELSE IF kind = "gif" THEN n > GifLimit
    ELSE n > VideoLimit

\* the negotiation of each kind, given what the encoder answers: the bytes that go
\* to upload_blob, or Failure where the publish function returns None
negotiate(kind, n, enc) ==
    IF kind = "image" THEN Bytes(shrink_image_if_needed(n, enc))
    ELSE IF kind = "gif" THEN (IF n > GifLimit THEN convert_gif_to_mp4(enc) ELSE Bytes(n))
    ELSE IF n > VideoLimit THEN (IF enc.ok THEN Bytes(enc.len) ELSE Failure)
    ELSE Bytes(n)

fit_first ==
    /\ fit.pc = "start"
    /\ \E enc \in Answers :
          fit' = [fit EXCEPT !.pc = "once",
                             !.enc1 = enc,
                             !.r1 = negotiate(fit.kind, fit.input, enc)]
    /\ UNCHANGED <<mainVars, resolverVars>>

fit_again ==
    /\ fit.pc = "once"
    /\ fit.r1.ok
    /\ \E enc \in Answers :
          fit' = [fit EXCEPT !.pc = "twice",
                             !.enc2 = enc,
                             !.ran2 = encoder_runs(fit.kind, fit.r1.len),
                             !.r2 = negotiate(fit.kind, fit.r1.len, enc)]
    /\ UNCHANGED <<mainVars, resolverVars>>

InitFit ==
    /\ fit \in [pc : {"start"}, kind : {"image", "gif", "video"}, input : Sizes,
                enc1 : {Failure}, r1 : {Failure}, enc2 : {Failure}, r2 : {Failure},
                ran2 : {FALSE}]
    /\ rpost = NoPost /\ rresult = NoMedia /\ rpc = "off"
    /\ MainIdle

NextFit == fit_first \/ fit_again

SpecFit == InitFit /\ [][NextFit]_vars

\* C14: negotiating the result of a negotiation returns it unchanged and invokes no
\* encoder.
C14_NegotiationIdempotent ==
    fit.pc = "twice" => (fit.r2 = fit.r1 /\ ~fit.ran2)

====
